---- MODULE Spec2Model ----
(***************************************************************************)
(* District-office pipeline: the local record store (SQLiteDatabase), the  *)
(* browser validation server (ValidationServer / ValidationHandler), the   *)
(* sync engine (PostgreSQLSyncManager: imports, export, full_sync) and the *)
(* file staging (StagingManager) under the pool threads of AsyncScraper.   *)
(*                                                                         *)
(* Time is the wall clock in whole seconds (int(time.time())).  Rows are   *)
(* created in id order, so "ORDER BY created_at DESC" is "largest id".     *)
(***************************************************************************)
EXTENDS Integers, Sequences, FiniteSets, TLC

\* ------------------------------------------------------------------------
\* Bounds of the model
\* ------------------------------------------------------------------------
MaxTime == 2
MaxExtractions == 2
MaxQueue == 2
MaxDecisions == 2
MaxWrites == 3
MaxRuns == 2
MaxBatch == 2
MaxImports == 2
MaxRows == 3
MaxTasks == 3
MaxConcurrent == 2
MaxRetries == 4

\* ------------------------------------------------------------------------
\* Input domains
\* ------------------------------------------------------------------------
Bioguides == {"U1", "U2"}
Cities == {"Springfield", "Chicago"}
Addresses == {"a1", "a2"}

\* A nullable column holding no value (times start at 1).
None == 0

Threads == {"main", "srv"}

VARIABLES
    now,                 \* wall clock, seconds
    extractions,         \* table extractions (+ extracted_offices), by id
    validated_offices,   \* table validated_offices, by office_id
    upstream_offices,    \* PostgreSQL table district_offices, by office_id
    sync_log,            \* table sync_log, in insertion order
    export,              \* the running export_validated_offices call
    pending_bioguides,   \* ValidationServer.pending_bioguides
    current_item_index,  \* ValidationServer.current_item_index
    database_uri,        \* ValidationServer.database_uri is set
    pc,                  \* position of the main thread and of the server thread
    tmp,                 \* value read by a thread for current_item_index += 1
    awaiting,            \* queue positions opened in a tab and not yet answered
    outcome,             \* how the latest /validate request ended
    nDecisions,          \* /validate requests handled
    nWrites,             \* direct store_district_office calls made
    disturbed,           \* an office row was written since the last export began
    members,             \* table members, by bioguideid
    members_contact,     \* table members_contact, by bioguideid
    upstream_members,    \* PostgreSQL table members, by bioguideid
    upstream_contacts,   \* PostgreSQL table members_contact, by bioguideid
    sync,                \* the running import or full_sync call
    queue_file,          \* staging/queue.json: its "extractions" by bioguide, and
                         \* whether the file holds a complete JSON text
    staged,              \* staging/pending: the units with an extraction.json
    worker,              \* position and local queue_data of each pool worker
    presented,           \* the extraction shown in the tab of each awaited position
    provenance_logs,     \* table provenance_logs, in insertion order
    store_error,         \* exception the latest create_extraction call raised
    listing,             \* the latest get_pending_extractions call and its result
    gather,              \* the running process_multiple_bioguides call
    retry                \* the running _exponential_backoff_retry call

storeVars == <<extractions, validated_offices>>
syncVars == <<upstream_offices, sync_log, export>>
serverVars == <<pending_bioguides, current_item_index, database_uri, pc, tmp,
                awaiting, outcome, nDecisions>>
importVars == <<members, members_contact, upstream_members, upstream_contacts, sync>>
stagingVars == <<queue_file, staged, worker>>
utilVars == <<provenance_logs, store_error, listing, gather, retry>>
vars == <<now, extractions, validated_offices, upstream_offices, sync_log,
          export, pending_bioguides, current_item_index, database_uri, pc,
          tmp, awaiting, outcome, nDecisions, nWrites, disturbed,
          members, members_contact, upstream_members, upstream_contacts, sync,
          queue_file, staged, worker, presented, provenance_logs, store_error,
          listing, gather, retry>>

\* ------------------------------------------------------------------------
\* Helpers
\* ------------------------------------------------------------------------
Terminal == {"validated", "rejected", "failed"}

\* All sequences over S of length at most n.
SeqUpTo(S, n) == UNION {[1..k -> S] : k \in 0..n}

\* Candidate offices of one extraction: each has a city and an address.
Office(c, a) == [city |-> c, address |-> a]
OfficeLists ==
    {<<Office("Springfield", "a1"), Office("Chicago", "a1")>>,
     <<Office("Springfield", "a2"), Office("Springfield", "a2")>>}

\* Queues handed to the server: every bioguide list up to MaxQueue that, when
\* not empty, starts with U1 (the other lists are these with the names swapped).
Queues == {q \in SeqUpTo(Bioguides, MaxQueue) : q = <<>> \/ q[1] = "U1"}

\* A table without rows.
EmptyTable == [k \in {} |-> None]

\* dict insert / replace in a table keyed by k
Put(table, k, row) ==
    [x \in DOMAIN table \cup {k} |-> IF x = k THEN row ELSE table[x]]

\* ------------------------------------------------------------------------
\* Record store: extractions
\* ------------------------------------------------------------------------

\* SQLiteDatabase.create_extraction followed by store_extracted_offices.
create_extraction(exts, bioguide_id, offices) ==
    Append(exts, [bioguide_id |-> bioguide_id,
                  status |-> "pending",
                  validation_timestamp |-> None,
                  offices |-> offices])

\* SQLiteDatabase.update_extraction_status: the row, when it exists, takes
\* the new status whatever its current status is; the result is TRUE then.
update_extraction_status(exts, extraction_id, status, t) ==
    IF extraction_id \in DOMAIN exts
    THEN [exts EXCEPT ![extraction_id].status = status,
                      ![extraction_id].validation_timestamp =
                          IF status = "validated" THEN t ELSE @]
    ELSE exts

\* Variant: the status is 'validated' whatever the decision was.
mark_validated_always(exts, extraction_id, is_valid, t) ==
    update_extraction_status(exts, extraction_id, "validated", t)

\* StagingManager.mark_validated
mark_validated(exts, extraction_id, is_valid, t) ==
    update_extraction_status(exts, extraction_id,
                             IF is_valid THEN "validated" ELSE "rejected", t)

\* Most recently created extraction of a bioguide id, None when there is none.
LatestExtractionId(exts, bioguide_id) ==
    LET ids == {i \in DOMAIN exts : exts[i].bioguide_id = bioguide_id}
    IN IF ids = {} THEN None
       ELSE CHOOSE i \in ids : \A j \in ids : j <= i

\* ValidationServer._get_data_for_validation: the offices and the id of the
\* latest extraction of the bioguide id; extraction_id = None stands for the
\* result None (no extraction found).
_get_data_for_validation(exts, bioguide_id) ==
    LET id == LatestExtractionId(exts, bioguide_id)
    IN [bioguide_id |-> bioguide_id,
        extracted_offices |-> IF id = None THEN <<>> ELSE exts[id].offices,
        extraction_id |-> id]

\* ------------------------------------------------------------------------
\* Record store: validated offices
\* ------------------------------------------------------------------------

\* f"{bioguide_id}-{city}-{timestamp}" (ValidationInterface._save_validated_data)
office_id_stamped(bioguide_id, city, timestamp) == <<bioguide_id, city, timestamp>>

\* f"{bioguide_id}-{city}" (store_district_office)
office_id_key(bioguide_id, city) == <<bioguide_id, city>>

NewOfficeRow(bioguide_id, office, t) ==
    [bioguide_id |-> bioguide_id, city |-> office.city,
     address |-> office.address, validated_at |-> t,
     synced_to_upstream |-> FALSE, synced_at |-> None]

\* SQLiteDatabase.create_validated_office: a plain INSERT; a second row with
\* the same primary key, or a failing database (fail), raises.
create_validated_office(vo, office_id, bioguide_id, office, t, fail) ==
    IF fail \/ office_id \in DOMAIN vo
    THEN [vo |-> vo, raised |-> TRUE]
    ELSE [vo |-> Put(vo, office_id, NewOfficeRow(bioguide_id, office, t)),
          raised |-> FALSE]

\* Variant: the update of an existing row leaves its sync flags as they were.
store_district_office_keeping(vo, bioguide_id, office, t, fail) ==
    LET key == office_id_key(bioguide_id, office.city)
    IN IF fail
       THEN [vo |-> vo, ok |-> FALSE]
       ELSE [vo |-> Put(vo, key,
                        IF key \in DOMAIN vo
                        THEN [NewOfficeRow(bioguide_id, office, t) EXCEPT
                                 !.synced_to_upstream = vo[key].synced_to_upstream,
                                 !.synced_at = vo[key].synced_at]
                        ELSE NewOfficeRow(bioguide_id, office, t)),
             ok |-> TRUE]

\* store_district_office: insert or update under bioguide_id-city; a failure
\* is swallowed and reported as False, leaving the table as it was.
store_district_office(vo, bioguide_id, office, t, fail) ==
    IF fail
    THEN [vo |-> vo, ok |-> FALSE]
    ELSE [vo |-> Put(vo, office_id_key(bioguide_id, office.city),
                     NewOfficeRow(bioguide_id, office, t)),
          ok |-> TRUE]

\* The loop "for office in offices: create_validated_office(...)" from office
\* k on; failAt is the office whose write meets a failing database (0: none).
RECURSIVE create_offices_from(_, _, _, _, _, _)
create_offices_from(vo, bioguide_id, offices, k, t, failAt) ==
    IF k > Len(offices)
    THEN [vo |-> vo, raised |-> FALSE]
    ELSE LET r == create_validated_office(
                      vo, office_id_stamped(bioguide_id, offices[k].city, t),
                      bioguide_id, offices[k], t, k = failAt)
         IN IF r.raised
            THEN r
            ELSE create_offices_from(r.vo, bioguide_id, offices, k + 1, t, failAt)

\* Variant: the insert loop catches and logs a failing insert instead of
\* letting it reach the handler.
_save_validated_data_swallowing(exts, vo, bioguide_id, offices, extraction_id, t, failAt) ==
    [extractions |-> exts,
     vo |-> create_offices_from(vo, bioguide_id, offices, 1, t, failAt).vo,
     raised |-> FALSE]

\* ValidationInterface._save_validated_data.  With an extraction_id the status
\* is set first and the 'validation_result' artifact is stored, which the
\* CHECK constraint on artifacts.artifact_type refuses; then the office rows
\* are inserted one transaction each.
_save_validated_data(exts, vo, bioguide_id, offices, extraction_id, t, failAt) ==
    IF extraction_id # None
    THEN [extractions |-> update_extraction_status(exts, extraction_id, "validated", t),
          vo |-> vo, raised |-> TRUE]
    ELSE LET r == create_offices_from(vo, bioguide_id, offices, 1, t, failAt)
         IN [extractions |-> exts, vo |-> r.vo, raised |-> r.raised]

\* ValidationInterface._save_rejected_data
_save_rejected_data(exts, extraction_id, t) ==
    IF extraction_id # None
    THEN [extractions |-> update_extraction_status(exts, extraction_id, "rejected", t),
          raised |-> TRUE]
    ELSE [extractions |-> exts, raised |-> FALSE]

\* The auto-store loop of do_GET: store_district_office for every office;
\* sfail is the set of offices whose write fails.
RECURSIVE store_offices_from(_, _, _, _, _, _)
store_offices_from(vo, bioguide_id, offices, k, t, sfail) ==
    IF k > Len(offices)
    THEN [vo |-> vo, count |-> 0]
    ELSE LET r == store_district_office(vo, bioguide_id, offices[k], t, k \in sfail)
             rest == store_offices_from(r.vo, bioguide_id, offices, k + 1, t, sfail)
         IN [vo |-> rest.vo, count |-> rest.count + (IF r.ok THEN 1 ELSE 0)]

\* ------------------------------------------------------------------------
\* Validation server
\* ------------------------------------------------------------------------

\* ValidationHandler.do_GET for /validate, up to the response (lines 191-253):
\* the tables afterwards, how the request ended, and whether the response was
\* sent (an exception leaves the handler before it).  _save_validated_data is
\* called with four positional arguments, which leaves its extraction_id None.
do_GET(bioguide_id_validated, is_valid, failAt, sfail) ==
    IF current_item_index >= Len(pending_bioguides)
    THEN [extractions |-> extractions, vo |-> validated_offices,
          outcome |-> "index_error", responded |-> FALSE]
    ELSE
    LET save_data == _get_data_for_validation(extractions, bioguide_id_validated)
        extraction_id == save_data.extraction_id
        offices == save_data.extracted_offices
        saved == IF is_valid
                 THEN _save_validated_data(extractions, validated_offices,
                          bioguide_id_validated, offices, None, now, failAt)
                 ELSE [extractions |-> _save_rejected_data(extractions, None, now).extractions,
                       vo |-> validated_offices,
                       raised |-> _save_rejected_data(extractions, None, now).raised]
        auto == is_valid /\ offices # <<>> /\ database_uri
        stored == IF auto
                  THEN store_offices_from(saved.vo, bioguide_id_validated,
                                          offices, 1, now, sfail)
                  ELSE [vo |-> saved.vo, count |-> Len(offices)]
    IN  IF extraction_id = None
        THEN [extractions |-> extractions, vo |-> validated_offices,
              outcome |-> "no_data", responded |-> TRUE]
        ELSE IF saved.raised
        THEN [extractions |-> saved.extractions, vo |-> saved.vo,
              outcome |-> "save_failed", responded |-> FALSE]
        ELSE [extractions |-> mark_validated(saved.extractions, extraction_id, is_valid, now),
              vo |-> stored.vo,
              outcome |-> IF ~is_valid THEN "rejected"
                          ELSE IF stored.count < Len(offices) THEN "accepted_store_failed"
                          ELSE "accepted",
              responded |-> TRUE]

\* Where a thread goes when it leaves _process_next_item.
Rest(t) == IF t = "main" THEN "done" ELSE "idle"

\* ------------------------------------------------------------------------
\* Members and contact pages: the local copies of the upstream tables
\* ------------------------------------------------------------------------

\* A row of the upstream members table (the columns the import reads).
UpstreamMember(currentmember) ==
    [currentmember |-> currentmember, officialwebsiteurl |-> "w"]

\* Upstream snapshots: U1 is a current member with a contact page; U2 is a
\* current member with a contact page, a former member with a contact page,
\* or a current member without one.
UpstreamSnapshots ==
    {[members |-> [b \in Bioguides |-> UpstreamMember(TRUE)],
      contacts |-> [b \in Bioguides |-> "c"]],
     [members |-> [b \in Bioguides |-> UpstreamMember(b = "U1")],
      contacts |-> [b \in Bioguides |-> "c"]],
     [members |-> [b \in Bioguides |-> UpstreamMember(TRUE)],
      contacts |-> [b \in {"U1"} |-> "c"]]}

\* The upstream query of sync_members_from_upstream: currentmember == True.
current_members(up) == {b \in DOMAIN up : up[b].currentmember}

\* SQLiteDatabase.upsert_member for every member of the query result: each
\* row is created, or updated column by column, from the upstream row.
upsert_members(ms, up) ==
    [b \in DOMAIN ms \cup current_members(up) |->
        IF b \in current_members(up)
        THEN [currentmember |-> up[b].currentmember,
              officialwebsiteurl |-> up[b].officialwebsiteurl]
        ELSE ms[b]]

\* The contacts sync_contacts_from_upstream writes: those whose member
\* exists in SQLite.
contacts_of_members(ms, upc) == DOMAIN upc \cap DOMAIN ms

\* Variant: an existing contact keeps its last_synced.
upsert_contacts_keeping(mc, ms, upc, t) ==
    [b \in DOMAIN mc \cup contacts_of_members(ms, upc) |->
        IF b \in contacts_of_members(ms, upc)
        THEN [contact_page |-> upc[b],
              last_synced |-> IF b \in DOMAIN mc THEN mc[b].last_synced ELSE t]
        ELSE mc[b]]

\* The loop of sync_contacts_from_upstream: an existing contact gets the
\* upstream page and last_synced = utcnow(); a new one is inserted, its
\* last_synced defaulting to utcnow().
upsert_contacts(mc, ms, upc, t) ==
    [b \in DOMAIN mc \cup contacts_of_members(ms, upc) |->
        IF b \in contacts_of_members(ms, upc)
        THEN [contact_page |-> upc[b], last_synced |-> t]
        ELSE mc[b]]

\* No import or full_sync call has been made.
NoSync == [pc |-> "idle", full |-> FALSE, first |-> 0, mark |-> 0, returned |-> 0]

\* No get_pending_extractions, process_multiple_bioguides or
\* _exponential_backoff_retry call has been made.
NoListing == [rows |-> <<>>, limit |-> 0, result |-> <<>>]
NoGather == [pc |-> "idle"]
NoRetry == [pc |-> "idle"]

\* Everything but the members tables and the sync caller, after construction.
InitPipeline ==
    /\ now = 1
    /\ extractions = <<>>
    /\ validated_offices = EmptyTable
    /\ upstream_offices = EmptyTable
    /\ sync_log = <<>>
    /\ export = [pc |-> "idle", returned |-> 0]
    /\ pending_bioguides \in Queues
    /\ current_item_index = 0
    /\ database_uri \in BOOLEAN
    /\ pc = [t \in Threads |-> IF t = "main" THEN "init" ELSE "idle"]
    /\ tmp = [t \in Threads |-> 0]
    /\ awaiting = {}
    /\ outcome = "none"
    /\ nDecisions = 0
    /\ nWrites = 0
    /\ disturbed = FALSE
    /\ queue_file = [complete |-> TRUE, extractions |-> EmptyTable]
    /\ staged = {}
    /\ worker = [w \in Bioguides |-> [pc |-> "idle", queue_data |-> EmptyTable]]
    /\ presented = EmptyTable
    /\ provenance_logs = <<>>
    /\ store_error = "none"
    /\ listing = NoListing
    /\ gather = NoGather
    /\ retry = NoRetry

\* A store whose members table was imported while every unit was a current
\* member; no import runs.
Init ==
    /\ InitPipeline
    /\ upstream_members = [b \in Bioguides |-> UpstreamMember(TRUE)]
    /\ upstream_contacts = [b \in Bioguides |-> "c"]
    /\ members = upsert_members(EmptyTable, upstream_members)
    /\ members_contact = EmptyTable
    /\ sync = NoSync

\* The clock advances.
Tick ==
    /\ now < MaxTime
    /\ now' = now + 1
    /\ UNCHANGED <<utilVars, presented, importVars, stagingVars, storeVars, syncVars, serverVars, nWrites,
                   disturbed>>

\* Variant: create_extraction without its check of the members table.
SaveExtractionUnchecked(bioguide_id, offices) ==
    /\ Len(extractions) < MaxExtractions
    /\ extractions' = create_extraction(extractions, bioguide_id, offices)
    /\ store_error' = "none"
    /\ UNCHANGED <<provenance_logs, listing, gather, retry, presented, importVars, stagingVars, now,
                   validated_offices, syncVars, serverVars, nWrites, disturbed>>

\* A producer saves an extraction with its candidate offices; create_extraction
\* raises ValueError, before it adds a row, when the bioguide is not in members.
SaveExtraction(bioguide_id, offices) ==
    /\ Len(extractions) < MaxExtractions
    /\ IF bioguide_id \in DOMAIN members
       THEN /\ extractions' = create_extraction(extractions, bioguide_id, offices)
            /\ store_error' = "none"
       ELSE /\ UNCHANGED extractions
            /\ store_error' = "ValueError"
    /\ UNCHANGED <<provenance_logs, listing, gather, retry, presented, importVars, stagingVars, now,
                   validated_offices, syncVars, serverVars, nWrites, disturbed>>

\* ValidationServer.start: the server thread begins to serve requests, then
\* the calling thread enters _process_next_item when the queue is not empty.
Start ==
    /\ pc["main"] = "init"
    /\ pc' = [pc EXCEPT !["main"] = IF pending_bioguides # <<>> THEN "pni" ELSE "done"]
    /\ UNCHANGED <<utilVars, presented, importVars, stagingVars, now, storeVars, syncVars, pending_bioguides, current_item_index,
                   database_uri, tmp, awaiting, outcome, nDecisions, nWrites, disturbed>>

\* The server thread handles one /validate request up to its response; after
\* the response it goes on to "current_item_index += 1".
SubmitDecision(bioguide_id, is_valid) ==
    /\ pc["main"] # "init"
    /\ pc["srv"] = "idle"
    /\ nDecisions < MaxDecisions
    /\ LET offices == _get_data_for_validation(extractions, bioguide_id).extracted_offices
       IN \E failAt \in 0..Len(offices), sfail \in SUBSET (1..Len(offices)) :
            LET r == do_GET(bioguide_id, is_valid, failAt, sfail)
            IN /\ extractions' = r.extractions
               /\ validated_offices' = r.vo
               /\ outcome' = r.outcome
               /\ pc' = IF r.responded THEN [pc EXCEPT !["srv"] = "inc_r"] ELSE pc
               /\ awaiting' = IF r.responded
                               THEN {p \in awaiting : pending_bioguides[p] # bioguide_id}
                               ELSE awaiting
    /\ presented' = [p \in awaiting' |-> presented[p]]
    /\ nDecisions' = nDecisions + 1
    /\ disturbed' = (disturbed \/ validated_offices' # validated_offices)
    /\ UNCHANGED <<utilVars, importVars, stagingVars, now, syncVars, pending_bioguides, current_item_index,
                   database_uri, tmp, nWrites>>

\* "self.current_item_index += 1": the read ...
IncRead(t) ==
    /\ pc[t] = "inc_r"
    /\ tmp' = [tmp EXCEPT ![t] = current_item_index]
    /\ pc' = [pc EXCEPT ![t] = "inc_w"]
    /\ UNCHANGED <<utilVars, presented, importVars, stagingVars, now, storeVars, syncVars, pending_bioguides, current_item_index,
                   database_uri, awaiting, outcome, nDecisions, nWrites, disturbed>>

\* ... and the write; _process_next_item is called next.
IncWrite(t) ==
    /\ pc[t] = "inc_w"
    /\ current_item_index' = tmp[t] + 1
    /\ tmp' = [tmp EXCEPT ![t] = 0]
    /\ pc' = [pc EXCEPT ![t] = "pni"]
    /\ UNCHANGED <<utilVars, presented, importVars, stagingVars, now, storeVars, syncVars, pending_bioguides,
                   database_uri, awaiting, outcome, nDecisions, nWrites, disturbed>>

\* _process_next_item, line 144: is there a next item?
ProcessNextCheck(t) ==
    /\ pc[t] = "pni"
    /\ pc' = [pc EXCEPT ![t] = IF current_item_index < Len(pending_bioguides)
                                THEN "pni_get" ELSE Rest(t)]
    /\ UNCHANGED <<utilVars, presented, importVars, stagingVars, now, storeVars, syncVars, pending_bioguides, current_item_index,
                   database_uri, tmp, awaiting, outcome, nDecisions, nWrites, disturbed>>

\* _process_next_item, lines 145-163: the item at the index is read again
\* (IndexError when the index has meanwhile reached the end), its data are
\* loaded, and it is opened in a tab, or skipped when there are no data.
ProcessNextItem(t) ==
    /\ pc[t] = "pni_get"
    /\ IF current_item_index >= Len(pending_bioguides)
       THEN /\ pc' = [pc EXCEPT ![t] = Rest(t)]
            /\ UNCHANGED <<awaiting, presented>>
       ELSE LET bioguide_id == pending_bioguides[current_item_index + 1]
                validation_data == _get_data_for_validation(extractions, bioguide_id)
            IN IF validation_data.extraction_id # None
               THEN /\ awaiting' = awaiting \cup {current_item_index + 1}
                    /\ presented' = Put(presented, current_item_index + 1,
                                        validation_data.extraction_id)
                    /\ pc' = [pc EXCEPT ![t] = Rest(t)]
               ELSE /\ pc' = [pc EXCEPT ![t] = "inc_r"]
                    /\ UNCHANGED <<awaiting, presented>>
    /\ UNCHANGED <<utilVars, importVars, stagingVars, now, storeVars, syncVars, pending_bioguides, current_item_index,
                   database_uri, tmp, outcome, nDecisions, nWrites, disturbed>>

\* ------------------------------------------------------------------------
\* Sync engine: export of validated offices
\* ------------------------------------------------------------------------

\* SQLiteDatabase.log_sync_operation: every call inserts a new sync_log row.
log_sync_operation(log, sync_type, records_processed, status) ==
    Append(log, [sync_type |-> sync_type, records_processed |-> records_processed,
                 status |-> status, error_message |-> ""])

\* Variant: the failed row is written without the error text.
log_sync_error_dropped(log, sync_type, records_processed, error_message) ==
    log_sync_operation(log, sync_type, records_processed, "failed")

\* The same call with error_message=str(e).
log_sync_error(log, sync_type, records_processed, error_message) ==
    Append(log, [sync_type |-> sync_type, records_processed |-> records_processed,
                 status |-> "failed", error_message |-> error_message])

\* str(e) of the exception raised when PostgreSQL cannot be reached.
ErrorText == "could not connect to server"

\* Variant: the query without its synced_to_upstream == False filter.
get_all_offices(vo) == DOMAIN vo

\* SQLiteDatabase.get_unsynced_offices: the rows with synced_to_upstream = False.
get_unsynced_offices(vo) ==
    {id \in DOMAIN vo : ~vo[id].synced_to_upstream}

\* Variant: the UPDATE without its WHERE office_id IN (...) filter.
mark_offices_synced_all(vo, office_ids, t) ==
    [id \in DOMAIN vo |-> [vo[id] EXCEPT !.synced_to_upstream = TRUE, !.synced_at = t]]

\* SQLiteDatabase.mark_offices_synced
mark_offices_synced(vo, office_ids, t) ==
    [id \in DOMAIN vo |->
        IF id \in office_ids
        THEN [vo[id] EXCEPT !.synced_to_upstream = TRUE, !.synced_at = t]
        ELSE vo[id]]

\* The dictionaries built from the rows fetched again by office_id; that query
\* has no ORDER BY, so the rows come in any order.
OfficeDict(vo, id) ==
    [office_id |-> id, bioguide_id |-> vo[id].bioguide_id,
     city |-> vo[id].city, address |-> vo[id].address]
offices_data_orders(vo) ==
    LET ids == get_unsynced_offices(vo)
        n == Cardinality(ids)
    IN {[i \in 1..n |-> OfficeDict(vo, f[i])] :
            f \in {g \in [1..n -> ids] : \A id \in ids : \E i \in 1..n : g[i] = id}}

\* Variant: a slice one dictionary short, offices_data[i:i + batch_size - 1].
batch_data_short(offices_data, i, batch_size) ==
    SubSeq(offices_data, i + 1,
           IF i + batch_size - 1 < Len(offices_data)
           THEN i + batch_size - 1 ELSE Len(offices_data))

\* offices_data[i:i + batch_size]
batch_data(offices_data, i, batch_size) ==
    SubSeq(offices_data, i + 1,
           IF i + batch_size < Len(offices_data) THEN i + batch_size ELSE Len(offices_data))

\* The rows of a batch created or updated in PostgreSQL, from dictionary k on.
RECURSIVE upsert_upstream(_, _, _)
upsert_upstream(up, batch, k) ==
    IF k > Len(batch)
    THEN up
    ELSE upsert_upstream(
             Put(up, batch[k].office_id,
                 [bioguide_id |-> batch[k].bioguide_id, city |-> batch[k].city,
                  address |-> batch[k].address]),
             batch, k + 1)

BatchIds(batch) == {batch[k].office_id : k \in 1..Len(batch)}

\* The default of export_validated_offices(batch_size).
DefaultBatchSize == 100

\* export_validated_offices left by the re-raised exception instead of a count.
Raised == 0 - 1

\* Number of export calls made so far.
Calls(sync_type) ==
    Cardinality({k \in 1..Len(sync_log) : /\ sync_log[k].sync_type = sync_type
                                          /\ sync_log[k].status = "started"})
Runs == Calls("offices_export")

\* export_validated_offices, lines 187-265: the 'started' row is logged and the
\* unsynced rows are read; with none the run is logged completed at once.
ExportStart(batch_size) ==
    /\ export.pc = "idle"
    /\ Runs < MaxRuns
    /\ LET started == log_sync_operation(sync_log, "offices_export", 0, "started")
       IN IF get_unsynced_offices(validated_offices) = {}
          THEN /\ sync_log' = log_sync_operation(started, "offices_export", 0, "completed")
               /\ export' = [pc |-> "idle", returned |-> 0]
          ELSE /\ sync_log' = started
               /\ \E offices_data \in offices_data_orders(validated_offices) :
                    export' = [pc |-> "batch", batch_size |-> batch_size,
                               offices_data |-> offices_data, i |-> 0,
                               exported_count |-> 0]
    /\ disturbed' = FALSE
    /\ UNCHANGED <<utilVars, presented, importVars, stagingVars, now, storeVars, upstream_offices, serverVars, nWrites>>

\* Variant: the batch is written but pg_session.commit() is missing.
ExportWithoutCommit ==
    /\ export.pc = "batch"
    /\ export' = [export EXCEPT !.pc = "mark"]
    /\ UNCHANGED <<utilVars, presented, importVars, stagingVars, now, storeVars, upstream_offices, sync_log, serverVars, nWrites, disturbed>>

\* Lines 268-310: one batch is written to PostgreSQL and committed.
ExportCommit ==
    /\ export.pc = "batch"
    /\ upstream_offices' =
           upsert_upstream(upstream_offices,
                           batch_data(export.offices_data, export.i, export.batch_size), 1)
    /\ export' = [export EXCEPT !.pc = "mark"]
    /\ UNCHANGED <<utilVars, presented, importVars, stagingVars, now, storeVars, sync_log, serverVars, nWrites, disturbed>>

\* Lines 312-326: the batch is marked synced in SQLite; after the last batch
\* the run is logged completed.
ExportMark ==
    /\ export.pc = "mark"
    /\ LET batch == batch_data(export.offices_data, export.i, export.batch_size)
           count == export.exported_count + Len(batch)
       IN /\ validated_offices' = mark_offices_synced(validated_offices, BatchIds(batch), now)
          /\ IF export.i + export.batch_size < Len(export.offices_data)
             THEN /\ export' = [export EXCEPT !.pc = "batch",
                                              !.i = @ + export.batch_size,
                                              !.exported_count = count]
                  /\ UNCHANGED sync_log
             ELSE /\ export' = [pc |-> "idle", returned |-> count]
                  /\ sync_log' = log_sync_operation(sync_log, "offices_export",
                                                    count, "completed")
    /\ UNCHANGED <<utilVars, presented, importVars, stagingVars, now, extractions, upstream_offices, serverVars, nWrites, disturbed>>

\* Lines 330-339: PostgreSQL fails while a batch is written or committed; the
\* uncommitted batch is lost, the run is logged failed and the error raised.
ExportFail ==
    /\ export.pc = "batch"
    /\ sync_log' = log_sync_error(sync_log, "offices_export",
                                  export.exported_count, ErrorText)
    /\ export' = [pc |-> "idle", returned |-> Raised]
    /\ UNCHANGED <<utilVars, presented, importVars, stagingVars, now, storeVars, upstream_offices, serverVars, nWrites, disturbed>>

\* A caller stores one office with store_district_office.
StoreOffice(bioguide_id, city, address) ==
    /\ nWrites < MaxWrites
    /\ validated_offices' =
           store_district_office(validated_offices, bioguide_id,
                                 Office(city, address), now, FALSE).vo
    /\ nWrites' = nWrites + 1
    /\ disturbed' = TRUE
    /\ UNCHANGED <<utilVars, presented, importVars, stagingVars, now, extractions, syncVars, serverVars>>

Next ==
    \/ Tick
    \/ \E b \in Bioguides, offices \in OfficeLists : SaveExtraction(b, offices)
    \/ Start
    \/ \E b \in Bioguides, is_valid \in BOOLEAN : SubmitDecision(b, is_valid)
    \/ \E t \in Threads : IncRead(t)
    \/ \E t \in Threads : IncWrite(t)
    \/ \E t \in Threads : ProcessNextCheck(t)
    \/ \E t \in Threads : ProcessNextItem(t)

Spec == Init /\ [][Next]_vars

\* The sync engine with callers that store offices; no validation server.
\* One export and the writes around it happen within one second of the clock,
\* which has the resolution of the office ids (whole seconds).
InitSync ==
    /\ Init
    /\ pending_bioguides = <<>>
    /\ database_uri = FALSE

NextSync ==
    \/ \E b \in Bioguides, c \in Cities, a \in Addresses : StoreOffice(b, c, a)
    \/ \E batch_size \in 1..MaxBatch : ExportStart(batch_size)
    \/ ExportCommit
    \/ ExportMark
    \/ ExportFail

SpecSync == InitSync /\ [][NextSync]_vars

\* The same while the clock advances between the writes and the exports.
NextTimed ==
    \/ Tick
    \/ \E b \in Bioguides : StoreOffice(b, "Springfield", "a1")
    \/ \E batch_size \in 1..MaxBatch : ExportStart(batch_size)
    \/ ExportCommit
    \/ ExportMark
    \/ ExportFail

SpecTimed == InitSync /\ [][NextTimed]_vars

\* ------------------------------------------------------------------------
\* Sync engine: imports and full_sync
\* ------------------------------------------------------------------------

\* sync_members_from_upstream, lines 49-55, called alone or as the first step
\* of full_sync: the 'started' row is logged.
ImportMembersStart(full) ==
    /\ sync.pc = "idle"
    /\ export.pc = "idle"
    /\ Calls("members_import") < MaxImports
    /\ full => (Calls("contacts_import") < MaxImports /\ Runs < MaxRuns)
    /\ sync_log' = log_sync_operation(sync_log, "members_import", 0, "started")
    /\ sync' = [pc |-> "members", full |-> full, first |-> Len(sync_log) + 1,
                mark |-> 0, returned |-> 0]
    /\ UNCHANGED <<utilVars, presented, members, members_contact, upstream_members, upstream_contacts,
                   stagingVars, now, storeVars, upstream_offices, export, serverVars,
                   nWrites, disturbed>>

\* Lines 57-90: the current members are read from PostgreSQL and upserted, the
\* run is logged completed with their number; full_sync goes on to the contacts.
ImportMembersRun ==
    /\ sync.pc = "members"
    /\ members' = upsert_members(members, upstream_members)
    /\ LET members_synced == Cardinality(current_members(upstream_members))
       IN /\ sync_log' = log_sync_operation(sync_log, "members_import",
                                            members_synced, "completed")
          /\ sync' = IF sync.full
                     THEN [sync EXCEPT !.pc = "contacts_call"]
                     ELSE [sync EXCEPT !.pc = "idle", !.returned = members_synced]
    /\ UNCHANGED <<utilVars, presented, members_contact, upstream_members, upstream_contacts,
                   stagingVars, now, storeVars, upstream_offices, export, serverVars,
                   nWrites, disturbed>>

\* Variant: the failure is logged and full_sync goes on to the contacts.
ImportMembersFailSwallowed ==
    /\ sync.pc = "members"
    /\ sync_log' = log_sync_error(sync_log, "members_import", 0, ErrorText)
    /\ sync' = IF sync.full
               THEN [sync EXCEPT !.pc = "contacts_call"]
               ELSE [sync EXCEPT !.pc = "idle", !.returned = Raised]
    /\ UNCHANGED <<utilVars, presented, members, members_contact, upstream_members, upstream_contacts,
                   stagingVars, now, storeVars, upstream_offices, export, serverVars,
                   nWrites, disturbed>>

\* Lines 92-101: PostgreSQL cannot be reached for the query; the run is logged
\* failed with the error and the exception is raised, through full_sync too.
ImportMembersFail ==
    /\ sync.pc = "members"
    /\ sync_log' = log_sync_error(sync_log, "members_import", 0, ErrorText)
    /\ sync' = [sync EXCEPT !.pc = "idle", !.returned = Raised]
    /\ UNCHANGED <<utilVars, presented, members, members_contact, upstream_members, upstream_contacts,
                   stagingVars, now, storeVars, upstream_offices, export, serverVars,
                   nWrites, disturbed>>

\* sync_contacts_from_upstream, lines 111-117, called alone ...
ImportContactsStart ==
    /\ sync.pc = "idle"
    /\ export.pc = "idle"
    /\ Calls("contacts_import") < MaxImports
    /\ sync_log' = log_sync_operation(sync_log, "contacts_import", 0, "started")
    /\ sync' = [pc |-> "contacts", full |-> FALSE, first |-> Len(sync_log) + 1,
                mark |-> 0, returned |-> 0]
    /\ UNCHANGED <<utilVars, presented, members, members_contact, upstream_members, upstream_contacts,
                   stagingVars, now, storeVars, upstream_offices, export, serverVars,
                   nWrites, disturbed>>

\* ... or by full_sync, line 355, after the members.
FullSyncContacts ==
    /\ sync.pc = "contacts_call"
    /\ sync_log' = log_sync_operation(sync_log, "contacts_import", 0, "started")
    /\ sync' = [sync EXCEPT !.pc = "contacts"]
    /\ UNCHANGED <<utilVars, presented, members, members_contact, upstream_members, upstream_contacts,
                   stagingVars, now, storeVars, upstream_offices, export, serverVars,
                   nWrites, disturbed>>

\* Lines 119-165: the contacts are read from PostgreSQL, those of local members
\* are upserted in one transaction, the run is logged completed with their
\* number; full_sync goes on to the export.
ImportContactsRun ==
    /\ sync.pc = "contacts"
    /\ members_contact' = upsert_contacts(members_contact, members, upstream_contacts, now)
    /\ LET contacts_synced == Cardinality(contacts_of_members(members, upstream_contacts))
       IN /\ sync_log' = log_sync_operation(sync_log, "contacts_import",
                                            contacts_synced, "completed")
          /\ sync' = IF sync.full
                     THEN [sync EXCEPT !.pc = "export_call", !.mark = Len(sync_log) + 1]
                     ELSE [sync EXCEPT !.pc = "idle", !.returned = contacts_synced]
    /\ UNCHANGED <<utilVars, presented, members, upstream_members, upstream_contacts,
                   stagingVars, now, storeVars, upstream_offices, export, serverVars,
                   nWrites, disturbed>>

\* Lines 167-176: PostgreSQL cannot be reached for the query.
ImportContactsFail ==
    /\ sync.pc = "contacts"
    /\ sync_log' = log_sync_error(sync_log, "contacts_import", 0, ErrorText)
    /\ sync' = [sync EXCEPT !.pc = "idle", !.returned = Raised]
    /\ UNCHANGED <<utilVars, presented, members, members_contact, upstream_members, upstream_contacts,
                   stagingVars, now, storeVars, upstream_offices, export, serverVars,
                   nWrites, disturbed>>

\* export_validated_offices called alone, with a batch size of the caller.
ExportAlone(batch_size) ==
    /\ sync.pc = "idle"
    /\ ExportStart(batch_size)

\* full_sync, line 359: export_validated_offices() with its default batch size.
FullSyncExport ==
    /\ sync.pc = "export_call"
    /\ Len(sync_log) = sync.mark
    /\ ExportStart(DefaultBatchSize)

\* full_sync, lines 359-361: the export has returned its count, which
\* full_sync returns with the other statistics, or has raised.
FullSyncReturn ==
    /\ sync.pc = "export_call"
    /\ Len(sync_log) > sync.mark
    /\ export.pc = "idle"
    /\ sync' = [sync EXCEPT !.pc = "idle", !.returned = export.returned]
    /\ UNCHANGED <<utilVars, presented, members, members_contact, upstream_members, upstream_contacts,
                   stagingVars, now, storeVars, syncVars, serverVars, nWrites, disturbed>>

\* A fresh store beside an upstream snapshot.
InitFull ==
    /\ InitPipeline
    /\ pending_bioguides = <<>>
    /\ database_uri = FALSE
    /\ \E snapshot \in UpstreamSnapshots :
          /\ upstream_members = snapshot.members
          /\ upstream_contacts = snapshot.contacts
    /\ members = EmptyTable
    /\ members_contact = EmptyTable
    /\ sync = NoSync

\* The snapshot in which U2 is a former member: its members row is not
\* imported and, having no local member, neither is its contact page.
InitFullSync ==
    /\ InitFull
    /\ ~upstream_members["U2"].currentmember

\* The sync engine's caller runs full syncs and exports one after the other
\* while other callers store offices, all within one second of the clock.
NextFull ==
    \/ \E b \in Bioguides : StoreOffice(b, "Springfield", "a1")
    \/ ImportMembersStart(TRUE)
    \/ ImportMembersRun
    \/ ImportMembersFail
    \/ FullSyncContacts
    \/ ImportContactsRun
    \/ ImportContactsFail
    \/ \E batch_size \in 1..MaxBatch : ExportAlone(batch_size)
    \/ FullSyncExport
    \/ FullSyncReturn
    \/ ExportCommit
    \/ ExportMark
    \/ ExportFail

SpecFull == InitFullSync /\ [][NextFull]_vars

\* The caller runs the two imports, each alone, while the clock advances.
NextImport ==
    \/ Tick
    \/ ImportMembersStart(FALSE)
    \/ ImportMembersRun
    \/ ImportMembersFail
    \/ ImportContactsStart
    \/ ImportContactsRun
    \/ ImportContactsFail

SpecImport == InitFull /\ [][NextImport]_vars

\* A unit that was a current member stops being one in PostgreSQL.
UpstreamRetire(b) ==
    /\ b \in DOMAIN upstream_members
    /\ upstream_members[b].currentmember
    /\ upstream_members' = [upstream_members EXCEPT ![b].currentmember = FALSE]
    /\ UNCHANGED <<utilVars, presented, members, members_contact, upstream_contacts, sync,
                   stagingVars, now, storeVars, syncVars, serverVars, nWrites, disturbed>>

\* A fresh store: producers save extractions while the members are imported,
\* again and again, from an upstream whose members retire.
NextStore ==
    \/ \E b \in Bioguides, offices \in OfficeLists : SaveExtraction(b, offices)
    \/ \E b \in Bioguides : UpstreamRetire(b)
    \/ ImportMembersStart(FALSE)
    \/ ImportMembersRun
    \/ ImportMembersFail

SpecStore == InitFull /\ [][NextStore]_vars

\* ------------------------------------------------------------------------
\* File staging: StagingManager under the worker threads of AsyncScraper
\* ------------------------------------------------------------------------

\* StagingManager.load_pending_extractions: the bioguides queue.json lists as
\* pending; a file that cannot be parsed gives the empty list.
load_pending_extractions(qf) ==
    IF qf.complete
    THEN {b \in DOMAIN qf.extractions : qf.extractions[b] = "pending"}
    ELSE {}

\* save_extraction, lines 123-160, in the pool thread of one bioguide: the
\* directory pending/<bioguide>_<timestamp> gets its extraction.json.
WriteExtraction(w) ==
    /\ worker[w].pc = "idle"
    /\ staged' = staged \cup {w}
    /\ worker' = [worker EXCEPT ![w].pc = "update_r"]
    /\ UNCHANGED <<utilVars, presented, importVars, queue_file, now, storeVars, syncVars, serverVars, nWrites,
                   disturbed>>

\* _update_queue, lines 87-88: queue.json is read; while another thread has
\* it open for writing the text is incomplete, json.load raises and the
\* exception is logged (lines 101-102), which ends the update.
QueueRead(w) ==
    /\ worker[w].pc = "update_r"
    /\ worker' = IF queue_file.complete
                 THEN [worker EXCEPT ![w] = [pc |-> "update_w",
                                             queue_data |-> queue_file.extractions]]
                 ELSE [worker EXCEPT ![w].pc = "done"]
    /\ UNCHANGED <<utilVars, presented, importVars, queue_file, staged, now, storeVars, syncVars, serverVars,
                   nWrites, disturbed>>

\* Lines 90-98: the entry is set in the thread's queue_data and queue.json is
\* opened with mode 'w', which empties it.
QueueOpen(w) ==
    /\ worker[w].pc = "update_w"
    /\ queue_file' = [complete |-> FALSE, extractions |-> EmptyTable]
    /\ worker' = [worker EXCEPT ![w] = [pc |-> "dump",
                                        queue_data |-> Put(worker[w].queue_data, w, "pending")]]
    /\ UNCHANGED <<utilVars, presented, importVars, staged, now, storeVars, syncVars, serverVars, nWrites,
                   disturbed>>

\* Line 99: json.dump writes the thread's queue_data from the start of the file.
QueueDump(w) ==
    /\ worker[w].pc = "dump"
    /\ queue_file' = [complete |-> TRUE, extractions |-> worker[w].queue_data]
    /\ worker' = [worker EXCEPT ![w] = [pc |-> "done", queue_data |-> EmptyTable]]
    /\ UNCHANGED <<utilVars, presented, importVars, staged, now, storeVars, syncVars, serverVars, nWrites,
                   disturbed>>

\* AsyncScraper.process_batch: one pool thread per bioguide saves to the file
\* staging; producers create extractions in SQLite beside them.
InitStaging ==
    /\ Init
    /\ pending_bioguides = <<>>
    /\ database_uri = FALSE

NextStaging ==
    \/ \E b \in Bioguides, offices \in OfficeLists : SaveExtraction(b, offices)
    \/ \E w \in Bioguides : WriteExtraction(w)
    \/ \E w \in Bioguides : QueueRead(w)
    \/ \E w \in Bioguides : QueueOpen(w)
    \/ \E w \in Bioguides : QueueDump(w)

SpecStaging == InitStaging /\ [][NextStaging]_vars

\* ------------------------------------------------------------------------
\* Record store: the list of pending extractions
\* ------------------------------------------------------------------------

\* Extraction.priority: the default and a raised one.
Priorities == {0, 1}

\* Extraction.created_at: an earlier and a later time.
CreationTimes == {1, 2}

\* Extraction tables by id, with the columns get_pending_extractions reads;
\* rows are created in id order, so created_at does not decrease with the id.
ExtractionTables ==
    {rows \in SeqUpTo([status : {"pending", "validated"}, priority : Priorities,
                       created_at : CreationTimes], MaxRows) :
        \A i, j \in 1..Len(rows) : i < j => rows[i].created_at <= rows[j].created_at}

\* Variant: ORDER BY priority, created_at (priority ascending).
order_by_priority_asc(rows, i, j) ==
    \/ rows[i].priority < rows[j].priority
    \/ rows[i].priority = rows[j].priority /\ rows[i].created_at < rows[j].created_at

\* ORDER BY priority DESC, created_at: row i sorts before row j.
order_by(rows, i, j) ==
    \/ rows[i].priority > rows[j].priority
    \/ rows[i].priority = rows[j].priority /\ rows[i].created_at < rows[j].created_at

\* The orders in which the query can return the rows of ids: rows that tie
\* in the ORDER BY columns come in any order.
RECURSIVE ordered(_, _)
ordered(rows, ids) ==
    IF ids = {}
    THEN {<<>>}
    ELSE UNION {{<<m>> \o t : t \in ordered(rows, ids \ {m})} :
                   m \in {x \in ids : \A y \in ids : ~order_by(rows, y, x)}}

\* SQLiteDatabase.get_pending_extractions: the ids of the rows returned by
\* filter(status == 'pending').order_by(...).limit(limit).all().
get_pending_extractions(rows, limit) ==
    {SubSeq(r, 1, IF limit < Len(r) THEN limit ELSE Len(r)) :
        r \in ordered(rows, {i \in 1..Len(rows) : rows[i].status = "pending"})}

\* A caller lists the pending extractions of a store.
GetPending(rows, limit) ==
    /\ listing = NoListing
    /\ \E result \in get_pending_extractions(rows, limit) :
          listing' = [rows |-> rows, limit |-> limit, result |-> result]
    /\ UNCHANGED <<provenance_logs, store_error, gather, retry, presented, importVars, stagingVars, now,
                   storeVars, syncVars, serverVars, nWrites, disturbed>>

InitListing ==
    /\ Init
    /\ pending_bioguides = <<>>
    /\ database_uri = FALSE

NextListing ==
    \E rows \in ExtractionTables, limit \in 0..MaxRows : GetPending(rows, limit)

SpecListing == InitListing /\ [][NextListing]_vars

\* ------------------------------------------------------------------------
\* Async scrape: process_multiple_bioguides on the asyncio event loop
\* ------------------------------------------------------------------------

\* The bioguide lists handed to process_multiple_bioguides: distinct ids.
InputIds == {"U1", "U2", "U3"}
IdLists ==
    {ids \in SeqUpTo(InputIds, MaxTasks) :
        \A j, k \in 1..Len(ids) : j # k => ids[j] # ids[k]}

\* ProcessingResult(bioguide_id, success)
ProcessingResult(bioguide_id, success) == [bioguide_id |-> bioguide_id, success |-> success]

\* The tasks that hold the semaphore.
Running(g) == {k \in 1..Len(g.ids) : g.task[k] = "running"}

\* Lines 239-254: the semaphore is created and gather() schedules one
\* process_with_semaphore task per id.
GatherStart(ids, max_concurrent) ==
    /\ gather = NoGather
    /\ gather' = [pc |-> "gather", ids |-> ids, max_concurrent |-> max_concurrent,
                  semaphore |-> max_concurrent,
                  task |-> [k \in 1..Len(ids) |-> "created"],
                  completed |-> [k \in 1..Len(ids) |-> ProcessingResult("", FALSE)],
                  results |-> EmptyTable]
    /\ UNCHANGED <<provenance_logs, store_error, listing, retry, presented, importVars,
                   stagingVars, now, storeVars, syncVars, serverVars, nWrites, disturbed>>

\* Variant: the task enters without "async with semaphore".
TaskAcquireUnbounded(k) ==
    /\ gather.pc = "gather"
    /\ k \in 1..Len(gather.ids)
    /\ gather.task[k] = "created"
    /\ gather' = [gather EXCEPT !.task[k] = "running"]
    /\ UNCHANGED <<provenance_logs, store_error, listing, retry, presented, importVars,
                   stagingVars, now, storeVars, syncVars, serverVars, nWrites, disturbed>>

\* Line 243, "async with semaphore": the task enters when the semaphore has
\* a free slot and process_single_bioguide begins; otherwise it waits.
TaskAcquire(k) ==
    /\ gather.pc = "gather"
    /\ k \in 1..Len(gather.ids)
    /\ gather.task[k] = "created"
    /\ gather.semaphore > 0
    /\ gather' = [gather EXCEPT !.task[k] = "running", !.semaphore = @ - 1]
    /\ UNCHANGED <<provenance_logs, store_error, listing, retry, presented, importVars,
                   stagingVars, now, storeVars, syncVars, serverVars, nWrites, disturbed>>

\* Lines 244-247: process_single_bioguide returns its ProcessingResult, for
\* a success or a failure; the semaphore is released and the task is done.
TaskFinish(k, success) ==
    /\ gather.pc = "gather"
    /\ k \in 1..Len(gather.ids)
    /\ gather.task[k] = "running"
    /\ gather' = [gather EXCEPT !.task[k] = "done", !.semaphore = @ + 1,
                                !.completed[k] = ProcessingResult(gather.ids[k], success)]
    /\ UNCHANGED <<provenance_logs, store_error, listing, retry, presented, importVars,
                   stagingVars, now, storeVars, syncVars, serverVars, nWrites, disturbed>>

\* Lines 256-262: gather() has every task's pair; the pairs are put in the
\* results dictionary, which is returned.
GatherReturn ==
    /\ gather.pc = "gather"
    /\ \A k \in 1..Len(gather.ids) : gather.task[k] = "done"
    /\ gather' = [gather EXCEPT
                      !.pc = "returned",
                      !.results = [b \in {gather.ids[k] : k \in 1..Len(gather.ids)} |->
                                      gather.completed[CHOOSE k \in 1..Len(gather.ids) :
                                          /\ gather.ids[k] = b
                                          /\ \A j \in 1..Len(gather.ids) :
                                                 gather.ids[j] = b => j <= k]]]
    /\ UNCHANGED <<provenance_logs, store_error, listing, retry, presented, importVars,
                   stagingVars, now, storeVars, syncVars, serverVars, nWrites, disturbed>>

InitGather ==
    /\ Init
    /\ pending_bioguides = <<>>
    /\ database_uri = FALSE

NextGather ==
    \/ \E ids \in IdLists, max_concurrent \in 1..MaxConcurrent :
           GatherStart(ids, max_concurrent)
    \/ \E k \in 1..MaxTasks : TaskAcquire(k)
    \/ \E k \in 1..MaxTasks, success \in BOOLEAN : TaskFinish(k, success)
    \/ GatherReturn

SpecGather == InitGather /\ [][NextGather]_vars

\* ------------------------------------------------------------------------
\* LLM processor: _exponential_backoff_retry
\* ------------------------------------------------------------------------

\* What one call of the wrapped function does: it returns a value, raises
\* RateLimitError, or raises another exception.
FuncOutcomes == {"r1", "r2", "RateLimitError", "Exception"}
BaseDelays == {1, 2}

\* 2 ** attempt; the delay kept in the model is base_delay * (2 ** attempt),
\* without the jitter of less than a second that is added to it.
RECURSIVE Pow2(_)
Pow2(n) == IF n = 0 THEN 1 ELSE 2 * Pow2(n - 1)

\* Lines 60-74: the call begins; the loop is at attempt 0.
RetryStart(max_retries, base_delay) ==
    /\ retry = NoRetry
    /\ retry' = [pc |-> "call", max_retries |-> max_retries, base_delay |-> base_delay,
                 attempt |-> 0, outcomes |-> <<>>, delay |-> 0,
                 result |-> "", raised |-> ""]
    /\ UNCHANGED <<provenance_logs, store_error, listing, gather, presented, importVars,
                   stagingVars, now, storeVars, syncVars, serverVars, nWrites, disturbed>>

\* Variant: "except RateLimitError" widened to every exception.
RetryCallAnyError(func_result) ==
    /\ retry.pc = "call"
    /\ LET called == [retry EXCEPT !.outcomes = Append(@, func_result)]
       IN retry' =
            IF func_result \in {"RateLimitError", "Exception"}
            THEN IF retry.attempt = retry.max_retries
                 THEN [called EXCEPT !.pc = "raised", !.raised = func_result]
                 ELSE [called EXCEPT !.pc = "sleep",
                                     !.delay = retry.base_delay * Pow2(retry.attempt)]
            ELSE [called EXCEPT !.pc = "returned", !.result = func_result]
    /\ UNCHANGED <<provenance_logs, store_error, listing, gather, presented, importVars,
                   stagingVars, now, storeVars, syncVars, serverVars, nWrites, disturbed>>

\* Lines 76-92, one pass of the loop body up to the sleep: func() is called;
\* its value is returned; a RateLimitError is raised again on the last
\* attempt and otherwise followed by the delay; another exception is raised
\* again at once.
RetryCall(func_result) ==
    /\ retry.pc = "call"
    /\ LET called == [retry EXCEPT !.outcomes = Append(@, func_result)]
       IN retry' =
            IF func_result = "RateLimitError"
            THEN IF retry.attempt = retry.max_retries
                 THEN [called EXCEPT !.pc = "raised", !.raised = "RateLimitError"]
                 ELSE [called EXCEPT !.pc = "sleep",
                                     !.delay = retry.base_delay * Pow2(retry.attempt)]
            ELSE IF func_result = "Exception"
            THEN [called EXCEPT !.pc = "raised", !.raised = "Exception"]
            ELSE [called EXCEPT !.pc = "returned", !.result = func_result]
    /\ UNCHANGED <<provenance_logs, store_error, listing, gather, presented, importVars,
                   stagingVars, now, storeVars, syncVars, serverVars, nWrites, disturbed>>

\* Line 89, time.sleep(delay), and the next iteration of the for loop.
RetrySleep ==
    /\ retry.pc = "sleep"
    /\ retry' = [retry EXCEPT !.pc = "call", !.attempt = @ + 1]
    /\ UNCHANGED <<provenance_logs, store_error, listing, gather, presented, importVars,
                   stagingVars, now, storeVars, syncVars, serverVars, nWrites, disturbed>>

InitRetry ==
    /\ Init
    /\ pending_bioguides = <<>>
    /\ database_uri = FALSE

NextRetry ==
    \/ \E max_retries \in 0..MaxRetries, base_delay \in BaseDelays :
           RetryStart(max_retries, base_delay)
    \/ \E func_result \in FuncOutcomes : RetryCall(func_result)
    \/ RetrySleep

\* The code runs sequentially: a call of func that has begun ends, and a
\* sleep that has begun ends.
SpecRetry ==
    /\ InitRetry
    /\ [][NextRetry]_vars
    /\ WF_vars(\E func_result \in FuncOutcomes : RetryCall(func_result))
    /\ WF_vars(RetrySleep)

\* ========================================================================
\* Properties
\* ========================================================================

LastRun == sync_log[Len(sync_log)]

\* The office_ids of the rows not marked synced.
UnsyncedIds ==
    {id \in DOMAIN validated_offices : ~validated_offices[id].synced_to_upstream}

\* Extraction i is marked validated by the step (newly, or stamped again).
BecomesValidated(i) ==
    /\ extractions'[i].status = "validated"
    /\ \/ i \notin DOMAIN extractions
       \/ extractions[i].status # "validated"
       \/ extractions[i].validation_timestamp # extractions'[i].validation_timestamp

\* The step is the handling of a /validate request.
DecisionStep == nDecisions' # nDecisions

\* C1: once an Extraction is validated, rejected or failed, no later status
\* update changes its status or its validated_at.
TerminalStatusIsFinal ==
    [][\A i \in DOMAIN extractions :
          extractions[i].status \in Terminal =>
              /\ extractions'[i].status = extractions[i].status
              /\ extractions'[i].validation_timestamp = extractions[i].validation_timestamp
      ]_vars

\* C2: however many accepts were processed, there is at most one
\* ValidatedOffice row per (unit, city).
OneRowPerUnitCity ==
    \A b \in Bioguides, c \in Cities :
        Cardinality({id \in DOMAIN validated_offices :
                        /\ validated_offices[id].bioguide_id = b
                        /\ validated_offices[id].city = c}) <= 1

CursorPassesOnlyDecidedItems ==
    [][current_item_index' > current_item_index =>
          \A p \in (current_item_index + 1)..current_item_index' :
              p <= Len(pending_bioguides) =>
                  LET id == LatestExtractionId(extractions', pending_bioguides[p])
                  IN id # None /\ extractions'[id].status \in Terminal
      ]_vars

\* C9: the cursor never decreases and never exceeds len(queue).
CursorMonotoneAndBounded ==
    [][/\ current_item_index' >= current_item_index
       /\ current_item_index' <= Len(pending_bioguides)
      ]_vars

\* C10: at most one queue item is opened in a tab and still unanswered.
SingleFlight == Cardinality(awaiting) <= 1

\* C5: when PostgreSQL fails on a batch, the failing step changes no row here
\* or upstream; the rows of the failing and of all later batches are unsynced;
\* and, no office having been written since the run began, the rows of the
\* earlier batches are synced and the unsynced rows, which the next export
\* reads, are exactly those of the failing and later batches.
FailedBatchLeavesRestUnsynced ==
    [][(export.pc = "batch" /\ export'.pc = "idle") =>
          LET data == export.offices_data
              rest == {data[k].office_id : k \in (export.i + 1)..Len(data)}
              done == {data[k].office_id : k \in 1..export.i}
          IN /\ LastRun'.status = "failed"
             /\ LastRun'.records_processed = export.i
             /\ export'.returned = Raised
             /\ validated_offices' = validated_offices
             /\ upstream_offices' = upstream_offices
             /\ \A id \in rest : ~validated_offices'[id].synced_to_upstream
             /\ ~disturbed =>
                    /\ \A id \in done : validated_offices'[id].synced_to_upstream
                    /\ UnsyncedIds' = rest
      ]_vars

\* C5 witness: a run failed on its second batch; the first row is synced, the
\* other is not.
FailedAfterFirstBatch ==
    /\ export.pc = "idle"
    /\ Len(sync_log) > 0
    /\ LastRun.status = "failed"
    /\ LastRun.records_processed >= 1
    /\ ~disturbed
    /\ UnsyncedIds # {}

\* C6: every synced row is in PostgreSQL under its office_id, and the step that
\* marks rows synced follows the commit of their batch and marks the rows of
\* that batch and no other.
SyncedOnlyAfterCommit ==
    /\ [](\A id \in DOMAIN validated_offices :
             validated_offices[id].synced_to_upstream => id \in DOMAIN upstream_offices)
    /\ [][\A id \in DOMAIN validated_offices' :
             (/\ validated_offices'[id].synced_to_upstream
              /\ (id \notin DOMAIN validated_offices
                    \/ ~validated_offices[id].synced_to_upstream)) =>
                 /\ export.pc = "mark"
                 /\ id \in BatchIds(batch_data(export.offices_data, export.i,
                                               export.batch_size))
                 /\ \A j \in BatchIds(batch_data(export.offices_data, export.i,
                                                 export.batch_size)) :
                        validated_offices'[j].synced_to_upstream
         ]_vars

\* C6 witness: in the middle of a run the first batch is committed and marked,
\* the second is committed and not yet marked.
SecondBatchCommittedNotMarked ==
    /\ export.pc = "mark"
    /\ export.i > 0
    /\ \E id \in DOMAIN validated_offices : validated_offices[id].synced_to_upstream
    /\ \E id \in DOMAIN validated_offices : ~validated_offices[id].synced_to_upstream

\* C7: a run that meets no failure is logged completed with records_processed
\* = N, the number of rows it read, and returns N; no office having been
\* written since it began, all N rows are synced and none is left unsynced;
\* and an export called next processes 0 records.
ExportSyncsAllThenNothing ==
    [][/\ (export.pc = "mark" /\ export'.pc = "idle") =>
              LET data == export.offices_data
              IN /\ LastRun'.status = "completed"
                 /\ LastRun'.records_processed = Len(data)
                 /\ export'.returned = Len(data)
                 /\ ~disturbed =>
                        /\ \A k \in 1..Len(data) :
                               validated_offices'[data[k].office_id].synced_to_upstream
                        /\ UnsyncedIds' = {}
       /\ (/\ export.pc = "idle"
           /\ Len(sync_log') > Len(sync_log)
           /\ Len(sync_log) > 0
           /\ LastRun.status = "completed"
           /\ ~disturbed) =>
              /\ export'.pc = "idle"
              /\ export'.returned = 0
              /\ LastRun'.status = "completed"
              /\ LastRun'.records_processed = 0
      ]_vars

\* C7 witness: two rows exported in two batches, then a second run of 0.
TwoBatchesThenZero ==
    /\ Len(sync_log) = 4
    /\ sync_log[2].status = "completed"
    /\ sync_log[2].records_processed = 2
    /\ sync_log[4].status = "completed"
    /\ sync_log[4].records_processed = 0
    /\ \A id \in DOMAIN validated_offices : validated_offices[id].synced_to_upstream

\* C8: an export called while no row is unsynced returns 0, logs a completed
\* run of 0 records, and changes no row here or upstream.
ExportOfNothingIsNoOp ==
    [][(/\ export.pc = "idle"
        /\ Len(sync_log') > Len(sync_log)
        /\ UnsyncedIds = {}) =>
           /\ export'.pc = "idle"
           /\ export'.returned = 0
           /\ Len(sync_log') = Len(sync_log) + 2
           /\ sync_log'[Len(sync_log) + 1].status = "started"
           /\ LastRun'.status = "completed"
           /\ LastRun'.records_processed = 0
           /\ validated_offices' = validated_offices
           /\ upstream_offices' = upstream_offices
      ]_vars

\* C8 witness: an export of 0 records has just run over a store all of whose
\* rows were synced already.
ZeroExportOverSyncedRows ==
    /\ Len(sync_log) >= 2
    /\ LastRun.status = "completed"
    /\ LastRun.records_processed = 0
    /\ sync_log[Len(sync_log) - 1].status = "started"
    /\ validated_offices # EmptyTable
    /\ UnsyncedIds = {}

\* The thread is inside code that reads or writes current_item_index: the
\* handler after its response, or _process_next_item.
InCursorCode(t) == pc[t] \in {"inc_r", "inc_w", "pni", "pni_get"}

\* C11: decision handling is serialized: while a handler invocation is between
\* its persist step and the end of its prepare-next step, no other execution
\* (the item preparation of start included) reads or writes the cursor.
DecisionHandlingSerialized ==
    ~(InCursorCode("srv") /\ InCursorCode("main"))

\* The deterministic office_ids of the candidate offices of extraction i.
CandidateKeys(i) ==
    {office_id_key(extractions[i].bioguide_id, extractions[i].offices[k].city) :
        k \in 1..Len(extractions[i].offices)}

\* C12: an accept that completes marks an Extraction validated, and when that
\* Extraction was pending the store then holds, for each distinct candidate
\* city, the row keyed bioguide-city, unsynced, and no other row was added.
AcceptStoresOneRowPerCity ==
    [][(DecisionStep /\ outcome' \in {"accepted", "accepted_store_failed"}) =>
          /\ \E i \in DOMAIN extractions : BecomesValidated(i)
          /\ \A i \in DOMAIN extractions :
                 (extractions[i].status = "pending" /\ BecomesValidated(i)) =>
                     /\ \A id \in CandidateKeys(i) :
                            /\ id \in DOMAIN validated_offices'
                            /\ ~validated_offices'[id].synced_to_upstream
                     /\ (DOMAIN validated_offices') \ (DOMAIN validated_offices)
                            \subseteq CandidateKeys(i)
      ]_vars

FailedDecisionNotAcknowledged ==
    [][(DecisionStep /\ outcome' \in {"no_data", "save_failed"}) =>
          /\ pc'["srv"] = "idle"
          /\ current_item_index' = current_item_index
      ]_vars

\* No import, export or full_sync call is running.
CallerIdle == sync.pc = "idle" /\ export.pc = "idle"

\* C15: each import or export execution is recorded by one sync_log row, which
\* is 'started' while the execution runs and 'completed' or 'failed' once it
\* has returned: when no execution is running, no row is 'started'.
NoStartedRowAfterReturn ==
    CallerIdle => \A k \in 1..Len(sync_log) : sync_log[k].status # "started"

\* A members import has completed before.
MembersImported ==
    \E j \in 1..Len(sync_log) : /\ sync_log[j].sync_type = "members_import"
                                /\ sync_log[j].status = "completed"

\* A contacts import has completed after a completed members import.
ContactsImported ==
    \E j, k \in 1..Len(sync_log) :
        /\ j < k
        /\ sync_log[j].sync_type = "members_import" /\ sync_log[j].status = "completed"
        /\ sync_log[k].sync_type = "contacts_import" /\ sync_log[k].status = "completed"

\* The row logged by this step has the number of rows of the table.
CountsRows(table) == sync_log'[Len(sync_log')].records_processed = Cardinality(DOMAIN table)

\* C16 as stated: a second import of the unchanged snapshot leaves every
\* members and members_contact row identical in every field, and each run
\* records the number of rows imported.
ReimportLeavesRowsIdentical ==
    [][/\ ImportMembersRun => CountsRows(members')
       /\ ImportContactsRun /\ MembersImported => CountsRows(members_contact')
       /\ ImportMembersRun /\ MembersImported => members' = members
       /\ ImportContactsRun /\ ContactsImported =>
              members_contact' = members_contact]_vars

\* C16 as amended: the rows are identical but for last_synced, which every
\* contact row written by the second run has at the time of that run.
ReimportLeavesRowsIdenticalButLastSynced ==
    [][/\ ImportMembersRun => CountsRows(members')
       /\ ImportContactsRun /\ MembersImported => CountsRows(members_contact')
       /\ ImportMembersRun /\ MembersImported => members' = members
       /\ ImportContactsRun /\ ContactsImported =>
              /\ DOMAIN members_contact' = DOMAIN members_contact
              /\ \A b \in DOMAIN members_contact :
                     /\ members_contact'[b].contact_page = members_contact[b].contact_page
                     /\ members_contact'[b].last_synced = now]_vars

\* C16 witness: both imports have completed twice, each time with the same
\* count of at least one row, and a contact row carries a later last_synced.
ImportedTwice ==
    /\ CallerIdle
    /\ \A t \in {"members_import", "contacts_import"} :
           \E j, k \in 1..Len(sync_log) :
               /\ j < k
               /\ sync_log[j].sync_type = t /\ sync_log[k].sync_type = t
               /\ sync_log[j].status = "completed" /\ sync_log[k].status = "completed"
               /\ sync_log[j].records_processed = sync_log[k].records_processed
               /\ sync_log[k].records_processed >= 1
    /\ ContactsImported
    /\ \E b \in DOMAIN members_contact : members_contact[b].last_synced > 1

\* The step in which a full_sync call ends, by return or by exception.
FullSyncEnds == sync.full /\ sync.pc # "idle" /\ sync'.pc = "idle"

\* The steps of full_sync, by the sync_type of their rows.
StepNo(sync_type) ==
    CASE sync_type = "members_import" -> 1
      [] sync_type = "contacts_import" -> 2
      [] sync_type = "offices_export" -> 3

\* The rows of one step logged from row first on, and the step's outcome:
\* the status of its latest row.
RowsOf(log, first, n) == {k \in first..Len(log) : StepNo(log[k].sync_type) = n}
StepOutcome(log, first, n) ==
    IF RowsOf(log, first, n) = {}
    THEN "not run"
    ELSE log[CHOOSE k \in RowsOf(log, first, n) :
                 \A j \in RowsOf(log, first, n) : j <= k].status

\* The rows logged from row first on are in the order of the steps.
InStepOrder(log, first) ==
    \A j, k \in first..Len(log) :
        j < k => StepNo(log[j].sync_type) <= StepNo(log[k].sync_type)

\* What a completed step committed is in the store.
StepsCommitted(log, first) ==
    /\ StepOutcome(log, first, 1) = "completed" =>
           \A b \in current_members(upstream_members) :
               b \in DOMAIN members' /\ members'[b].currentmember
    /\ StepOutcome(log, first, 2) = "completed" =>
           \A b \in contacts_of_members(members', upstream_contacts) :
               b \in DOMAIN members_contact'

\* C17 as stated: when full_sync ends its rows are in the order members,
\* contacts, export, what the completed steps committed is still there, and
\* each of the three steps has a row with its outcome.
FullSyncLogsAllThreeSteps ==
    [][FullSyncEnds =>
          /\ InStepOrder(sync_log', sync.first)
          /\ StepsCommitted(sync_log', sync.first)
          /\ \A n \in 1..3 :
                 StepOutcome(sync_log', sync.first, n) \in {"completed", "failed"}]_vars

\* C17 as amended: a step is run only when every earlier step has completed;
\* each step that was run has a row with its outcome, and full_sync raises
\* exactly when a step has failed.
FullSyncLogsStepsRun ==
    [][FullSyncEnds =>
          /\ InStepOrder(sync_log', sync.first)
          /\ StepsCommitted(sync_log', sync.first)
          /\ StepOutcome(sync_log', sync.first, 1) \in {"completed", "failed"}
          /\ \A n \in 2..3 :
                 IF StepOutcome(sync_log', sync.first, n - 1) = "completed"
                 THEN StepOutcome(sync_log', sync.first, n) \in {"completed", "failed"}
                 ELSE StepOutcome(sync_log', sync.first, n) = "not run"
          /\ (sync'.returned = Raised) <=>
                 (\E n \in 1..3 : StepOutcome(sync_log', sync.first, n) = "failed")]_vars

\* C17 witness: a full_sync has ended with the exception of its export, after
\* its two imports had completed and filled the members tables.
FullSyncExportFailed ==
    /\ sync.full /\ sync.pc = "idle" /\ sync.returned = Raised
    /\ export.pc = "idle"
    /\ StepOutcome(sync_log, sync.first, 1) = "completed"
    /\ StepOutcome(sync_log, sync.first, 2) = "completed"
    /\ sync_log[Len(sync_log)].sync_type = "offices_export"
    /\ sync_log[Len(sync_log)].status = "failed"
    /\ DOMAIN members # {} /\ DOMAIN members_contact # {}

\* The row logged by this step is a 'failed' row with the error text.
LogsFailure(sync_type) ==
    /\ Len(sync_log') = Len(sync_log) + 1
    /\ sync_log'[Len(sync_log')].sync_type = sync_type
    /\ sync_log'[Len(sync_log')].status = "failed"
    /\ sync_log'[Len(sync_log')].error_message = ErrorText

\* An import that cannot reach PostgreSQL logs the failure, raises without
\* another attempt and changes no row.
ImportFailureChangesNothing ==
    /\ ImportMembersFail => LogsFailure("members_import")
    /\ ImportContactsFail => LogsFailure("contacts_import")
    /\ (ImportMembersFail \/ ImportContactsFail) =>
           /\ sync'.pc = "idle" /\ sync'.returned = Raised
           /\ members' = members /\ members_contact' = members_contact
           /\ validated_offices' = validated_offices

\* C18 as stated: an import or export that cannot reach PostgreSQL logs a
\* failed row with the error text and raises without another attempt, and
\* the run has changed no members, members_contact or validated_offices row:
\* a failing export has marked no batch.
UnreachableUpstreamChangesNothing ==
    [][/\ ImportFailureChangesNothing
       /\ ExportFail =>
              /\ LogsFailure("offices_export")
              /\ export'.pc = "idle" /\ export'.returned = Raised
              /\ members' = members /\ members_contact' = members_contact
              /\ validated_offices' = validated_offices
              /\ export.i = 0 /\ export.exported_count = 0]_vars

\* C18 as amended: a failing export has marked the rows of the batches it
\* had committed before, which are in PostgreSQL, and has counted them; the
\* failure itself changes no row.
UnreachableUpstreamKeepsCommittedBatches ==
    [][/\ ImportFailureChangesNothing
       /\ ExportFail =>
              /\ LogsFailure("offices_export")
              /\ export'.pc = "idle" /\ export'.returned = Raised
              /\ members' = members /\ members_contact' = members_contact
              /\ validated_offices' = validated_offices
              /\ export.exported_count = export.i
              /\ sync_log'[Len(sync_log')].records_processed = export.i
              /\ \A k \in 1..export.i :
                     export.offices_data[k].office_id \in DOMAIN upstream_offices]_vars

\* C18 witness: a members import has failed on a store it left empty, and an
\* export has failed after a batch it had committed and marked.
ImportAndExportFailed ==
    /\ CallerIdle
    /\ export.returned = Raised
    /\ sync_log[Len(sync_log)].sync_type = "offices_export"
    /\ sync_log[Len(sync_log)].error_message = ErrorText
    /\ sync_log[Len(sync_log)].records_processed >= 1
    /\ \E k \in 1..Len(sync_log) : /\ sync_log[k].sync_type = "members_import"
                                    /\ sync_log[k].error_message = ErrorText
    /\ members = EmptyTable
    /\ \E id \in DOMAIN validated_offices : validated_offices[id].synced_to_upstream

\* C19: the dictionaries an export sends are in non-decreasing validated_at
\* order, so every row of an earlier batch was validated no later than every
\* row of a later batch.
ExportInValidatedAtOrder ==
    [][\A batch_size \in 1..MaxBatch :
          (ExportStart(batch_size) /\ export'.pc = "batch") =>
              \A j, k \in 1..Len(export'.offices_data) :
                  j < k =>
                      validated_offices[export'.offices_data[j].office_id].validated_at
                          <= validated_offices[export'.offices_data[k].office_id].validated_at]_vars

\* C20: when the workers saving extractions of distinct units have all
\* finished, every one of those extractions is recorded and listed as
\* pending, in the file staging and in SQLite.
ConcurrentSavesAllListedPending ==
    (\A w \in Bioguides : worker[w].pc = "done") =>
        /\ \A w \in Bioguides :
               w \in staged /\ w \in load_pending_extractions(queue_file)
        /\ \A i \in DOMAIN extractions : extractions[i].status = "pending"

\* C21: create_extraction for a bioguide without a members row raises
\* ValueError and adds no row, so every extraction row refers to a member.
ExtractionsReferToMembers ==
    /\ [](\A i \in DOMAIN extractions : extractions[i].bioguide_id \in DOMAIN members)
    /\ [][\A b \in Bioguides, offices \in OfficeLists :
            (SaveExtraction(b, offices) /\ b \notin DOMAIN members) =>
                (store_error' = "ValueError" /\ extractions' = extractions)]_vars

\* C21 witness: a save for a unit without a members row has raised beside an
\* extraction saved for a unit with one.
UnknownUnitRefused ==
    /\ store_error = "ValueError"
    /\ extractions # <<>>
    /\ \E b \in Bioguides : b \notin DOMAIN members

\* Row i of the listed table comes before row j in the order priority
\* descending, created_at ascending.
ComesBefore(i, j) ==
    \/ listing.rows[i].priority > listing.rows[j].priority
    \/ /\ listing.rows[i].priority = listing.rows[j].priority
       /\ listing.rows[i].created_at < listing.rows[j].created_at

\* C22: the list has only pending rows, each once, at most limit of them, in
\* the order priority descending then created_at ascending; a pending row is
\* left out only when the list is full and none of its rows comes after it.
PendingListOrderedAndBounded ==
    LET r == listing.result
        ids == {r[k] : k \in 1..Len(r)}
    IN /\ \A k \in 1..Len(r) :
              r[k] \in 1..Len(listing.rows) /\ listing.rows[r[k]].status = "pending"
       /\ Cardinality(ids) = Len(r)
       /\ Len(r) <= listing.limit
       /\ \A j, k \in 1..Len(r) : j < k => ~ComesBefore(r[k], r[j])
       /\ \A x \in 1..Len(listing.rows) :
              (listing.rows[x].status = "pending" /\ x \notin ids) =>
                  /\ Len(r) = listing.limit
                  /\ \A k \in 1..Len(r) : ~ComesBefore(x, r[k])

\* C22 witness: a full list of two whose first row is the younger one of
\* higher priority, with a third pending row left out.
ListedByPriorityWithOneLeftOut ==
    /\ Len(listing.result) = 2 /\ listing.limit = 2
    /\ listing.result[1] > listing.result[2]
    /\ listing.rows[listing.result[1]].priority > listing.rows[listing.result[2]].priority
    /\ \E x \in 1..Len(listing.rows) :
           /\ listing.rows[x].status = "pending"
           /\ x # listing.result[1] /\ x # listing.result[2]

\* The provenance rows of one extraction, in insertion order.
EventsOf(log, i) == {k \in 1..Len(log) : log[k].extraction_id = i}

\* C23: a step that changes the status of an extraction appends a provenance
\* row for it with the status before and after, so the latest provenance row
\* of an extraction in a terminal status implies that status.
StatusChangesAreLogged ==
    /\ [][\A i \in DOMAIN extractions :
            extractions'[i].status # extractions[i].status =>
                /\ Len(provenance_logs') = Len(provenance_logs) + 1
                /\ provenance_logs'[Len(provenance_logs')] =
                       [extraction_id |-> i, before |-> extractions[i].status,
                        after |-> extractions'[i].status]]_vars
    /\ [](\A i \in DOMAIN extractions :
            extractions[i].status \in Terminal =>
                /\ EventsOf(provenance_logs, i) # {}
                /\ \E k \in EventsOf(provenance_logs, i) :
                       /\ \A j \in EventsOf(provenance_logs, i) : j <= k
                       /\ provenance_logs[k].after = extractions[i].status)

\* C24: at no time are more than max_concurrent process_single_bioguide
\* calls in progress, and the dictionary returned when all tasks have
\* finished has exactly one result for every input id, the id's own.
GatherBoundedAndComplete ==
    /\ gather.pc = "gather" =>
           Cardinality({k \in 1..Len(gather.ids) : gather.task[k] = "running"})
               <= gather.max_concurrent
    /\ gather.pc = "returned" =>
           /\ DOMAIN gather.results = {gather.ids[k] : k \in 1..Len(gather.ids)}
           /\ Cardinality(DOMAIN gather.results) = Len(gather.ids)
           /\ \A k \in 1..Len(gather.ids) :
                  /\ gather.task[k] = "done"
                  /\ gather.results[gather.ids[k]] = gather.completed[k]
                  /\ gather.results[gather.ids[k]].bioguide_id = gather.ids[k]

\* C24 witness: three ids were processed two at a time; the call has
\* returned with a success and a failure among its three results.
ThreeResultsTwoAtATime ==
    /\ gather.pc = "returned"
    /\ Len(gather.ids) = 3 /\ gather.max_concurrent = 2
    /\ \E a, b \in DOMAIN gather.results :
           gather.results[a].success /\ ~gather.results[b].success

\* C25: under any interleaving of an export with callers that upsert
\* offices, every row marked synced has a row upstream with the same
\* office_id and the same field values; a row changed after the export read
\* it is not left marked synced with older content upstream.
SyncedRowsMatchUpstream ==
    \A id \in DOMAIN validated_offices :
        validated_offices[id].synced_to_upstream =>
            /\ id \in DOMAIN upstream_offices
            /\ upstream_offices[id].bioguide_id = validated_offices[id].bioguide_id
            /\ upstream_offices[id].city = validated_offices[id].city
            /\ upstream_offices[id].address = validated_offices[id].address

\* C26: a decision that is answered for a presented queue item changes the
\* extraction that was presented for that item and no other, and the office
\* rows it writes are candidate offices of that extraction, also when a newer
\* extraction of the same unit was created after the presentation.
DecisionAppliesToPresented ==
    [][(nDecisions' # nDecisions /\ awaiting' # awaiting) =>
          LET decided == {presented[p] : p \in awaiting \ awaiting'}
          IN /\ \A i \in DOMAIN extractions :
                    extractions'[i] # extractions[i] => i \in decided
             /\ \E i \in decided : extractions'[i].status \in {"validated", "rejected"}
             /\ \A id \in DOMAIN validated_offices' :
                    (id \notin DOMAIN validated_offices
                        \/ validated_offices'[id] # validated_offices[id]) =>
                    \E i \in decided : \E k \in DOMAIN extractions[i].offices :
                        /\ extractions[i].offices[k].city = validated_offices'[id].city
                        /\ extractions[i].offices[k].address = validated_offices'[id].address]_vars

\* C27: an accept decision is all-or-nothing for the validated offices: when
\* its processing fails after some of the offices were written, no office row
\* written for that decision remains.
AcceptIsAllOrNothing ==
    [][(nDecisions' # nDecisions /\ outcome' = "save_failed") =>
          validated_offices' = validated_offices]_vars

\* C28: storing an office whose office_id already exists and is marked
\* synced sets synced_to_upstream back to false and synced_at to null, and
\* the export that starts next reads every unsynced row with its current
\* field values, so the changed row is selected by it; a row is marked
\* synced only by an export that read it.
UpsertResetsSyncedFlag ==
    /\ [][\A b \in Bioguides, c \in Cities, a \in Addresses :
            (/\ StoreOffice(b, c, a)
             /\ <<b, c>> \in DOMAIN validated_offices
             /\ validated_offices[<<b, c>>].synced_to_upstream) =>
                /\ ~validated_offices'[<<b, c>>].synced_to_upstream
                /\ validated_offices'[<<b, c>>].synced_at = None
                /\ validated_offices'[<<b, c>>].address = a]_vars
    /\ [][(export.pc = "idle" /\ export'.pc = "batch") =>
            \A id \in DOMAIN validated_offices :
                ~validated_offices[id].synced_to_upstream =>
                    \E k \in DOMAIN export'.offices_data :
                        /\ export'.offices_data[k].office_id = id
                        /\ export'.offices_data[k].address = validated_offices[id].address
                        /\ export'.offices_data[k].city = validated_offices[id].city]_vars
    /\ [][\A id \in DOMAIN validated_offices :
            (~validated_offices[id].synced_to_upstream
                /\ validated_offices'[id].synced_to_upstream) =>
                /\ export.pc = "mark"
                /\ \E k \in DOMAIN export.offices_data :
                       export.offices_data[k].office_id = id]_vars

\* C28 witness: a row that was exported with one address and changed
\* afterwards has been read, with its new address, by the export that
\* started next.
ChangedRowReadByNextExport ==
    /\ export.pc = "batch"
    /\ Runs = 2
    /\ \E k \in DOMAIN export.offices_data :
           LET id == export.offices_data[k].office_id
           IN /\ id \in DOMAIN upstream_offices
              /\ upstream_offices[id].address # export.offices_data[k].address
              /\ ~validated_offices[id].synced_to_upstream
              /\ validated_offices[id].synced_at = None
              /\ validated_offices[id].address = export.offices_data[k].address

\* C29: _exponential_backoff_retry always terminates after at most
\* max_retries + 1 calls of the wrapped function: it returns the first
\* successful result, calls again only after a rate-limit error, raises any
\* other error again at once, and raises the rate-limit error again when the
\* (max_retries + 1)-th call fails with it too.
RetryCallsAreBounded ==
    retry.pc # "idle" =>
        LET n == Len(retry.outcomes)
        IN /\ n <= retry.max_retries + 1
           /\ \A k \in 1..(n - 1) : retry.outcomes[k] = "RateLimitError"
           /\ retry.pc \in {"returned", "raised"} => n >= 1
           /\ (n >= 1 /\ retry.outcomes[n] \in {"r1", "r2"}) =>
                  (retry.pc = "returned" /\ retry.result = retry.outcomes[n])
           /\ (n >= 1 /\ retry.outcomes[n] = "Exception") =>
                  (retry.pc = "raised" /\ retry.raised = "Exception")
           /\ (n >= 1 /\ retry.outcomes[n] = "RateLimitError") =>
                  IF n = retry.max_retries + 1
                  THEN retry.pc = "raised" /\ retry.raised = "RateLimitError"
                  ELSE retry.pc \in {"sleep", "call"}
RetryTerminatesWithinBound ==
    /\ []RetryCallsAreBounded
    /\ (retry.pc # "idle") ~> (retry.pc \in {"returned", "raised"})

\* C29 witness: with max_retries = 2 the third call met the rate limit
\* again and the error was raised.
RateLimitRaisedAfterLastRetry ==
    /\ retry.pc = "raised"
    /\ retry.max_retries = 2
    /\ Len(retry.outcomes) = 3
    /\ retry.raised = "RateLimitError"

\* C30: after a successful import of the members, a local member has
\* currentmember true only if PostgreSQL marks it current; a member imported
\* earlier that is no longer current upstream does not stay current locally.
ImportedCurrentOnlyIfCurrentUpstream ==
    [][ImportMembersRun =>
          \A b \in DOMAIN members' :
              members'[b].currentmember =>
                  (b \in DOMAIN upstream_members /\ upstream_members[b].currentmember)]_vars

====
